---------------------------- MODULE Spec2Model ----------------------------
(***************************************************************************)
(* The resource-archive Watcher of chromatic-e2e                           *)
(* (src/src/resource-archive/index.ts): the Fetch.requestPaused handler,   *)
(* the commands it sends to the CDP client, the archive it maintains and   *)
(* the idle() race between the global timeout and the network-idle wait.   *)
(*                                                                         *)
(* Strings whose characters the code inspects (request methods, header     *)
(* names, response bodies) are sequences of character codes.               *)
(***************************************************************************)
EXTENDS Naturals, Sequences, FiniteSets, Bags, TLC

(***************************************************************************)
(* Bounds of the model.                                                    *)
(***************************************************************************)
\* requestPaused events delivered in one watch session
MaxEvents == 2

\* stands for JavaScript's undefined where a string is optional
NoValue == "undefined"

\* an absent responseStatusCode: the code only tests it for truth and against 304
NoStatus == 0

(***************************************************************************)
(* URLs.  A request URL is the components of the string on the wire;       *)
(* UrlString is that string (request.url), ParseUrl is `new URL(...)`.     *)
(***************************************************************************)
Urls ==
  { [protocol |-> "https:", hostname |-> "example.com",    port |-> "",    pathname |-> "/"],
    [protocol |-> "https:", hostname |-> "example.com",    port |-> "",    pathname |-> "/logo.png"],
    [protocol |-> "https:", hostname |-> "example.com",    port |-> "443", pathname |-> "/"],
    [protocol |-> "https:", hostname |-> "cdn.other.test", port |-> "",    pathname |-> "/font.woff2"] }

UrlString(u) ==
  u.protocol \o "//" \o u.hostname \o (IF u.port = "" THEN "" ELSE ":" \o u.port) \o u.pathname

DefaultPort(protocol) == IF protocol = "https:" THEN "443" ELSE "80"

\* the host of a parsed URL: the port is dropped when it is the scheme's default
UrlHost(u) ==
  u.hostname \o (IF u.port = "" \/ u.port = DefaultPort(u.protocol) THEN "" ELSE ":" \o u.port)

ParseUrl(u) ==
  [ href   |-> u.protocol \o "//" \o UrlHost(u) \o (IF u.pathname = "" THEN "/" ELSE u.pathname),
    origin |-> u.protocol \o "//" \o UrlHost(u) ]

UrlStrings == { UrlString(u) : u \in Urls }

\* the request whose URL string is s
UrlOf(s) == CHOOSE u \in Urls : UrlString(u) = s

(***************************************************************************)
(* Character-level helpers.                                                *)
(***************************************************************************)
\* String.prototype.toLowerCase on one character code (ASCII letters)
LowerChar(c) == IF c >= 65 /\ c <= 90 THEN c + 32 ELSE c

ToLowerCase(s) == [ i \in 1..Len(s) |-> LowerChar(s[i]) ]

\* "get"
GetPattern == << 103, 101, 116 >>

\* request.method.match(/get/i): the pattern anywhere in the string, any case
MatchesGet(method) ==
  \E i \in 1..Len(method) :
     /\ i + Len(GetPattern) - 1 <= Len(method)
     /\ SubSeq(ToLowerCase(method), i, i + Len(GetPattern) - 1) = GetPattern

\* "GET", "POST", "MGET"
Methods == { << 71, 69, 84 >>, << 80, 79, 83, 84 >>, << 77, 71, 69, 84 >> }

\* "content-type"
ContentTypeName == << 99, 111, 110, 116, 101, 110, 116, 45, 116, 121, 112, 101 >>

\* (as FindContentType, comparing the name as it is spelt)
FindContentTypeExact(headers) ==
  LET hits == { i \in 1..Len(headers) : headers[i].name = ContentTypeName }
  IN  IF hits = {} THEN 0 ELSE CHOOSE i \in hits : \A j \in hits : i <= j

\* responseHeaders.find(({ name }) => name.toLowerCase() === 'content-type')
\* (the index of the first such header, 0 when there is none)
FindContentType(headers) ==
  LET hits == { i \in 1..Len(headers) : ToLowerCase(headers[i].name) = ContentTypeName }
  IN  IF hits = {} THEN 0 ELSE CHOOSE i \in hits : \A j \in hits : i <= j

\* contentTypeHeader?.value
ContentTypeValue(headers) ==
  IF FindContentType(headers) = 0 THEN NoValue ELSE headers[FindContentType(headers)].value

\* "Content-Type"
ContentTypeHeader == << 67, 111, 110, 116, 101, 110, 116, 45, 84, 121, 112, 101 >>

\* "content-length"
ContentLengthHeader == << 99, 111, 110, 116, 101, 110, 116, 45, 108, 101, 110, 103, 116, 104 >>


(***************************************************************************)
(* Response bodies.  Fetch.getResponseBody returns {body, base64Encoded};  *)
(* the handler stores Buffer.from(body, base64Encoded ? 'base64' : 'utf8').*)
(***************************************************************************)
\* "="
PadChar == 61

\* the 6-bit value of a character of the base64 alphabet
Sextet(c) ==
  IF c >= 65 /\ c <= 90 THEN c - 65
  ELSE IF c >= 97 /\ c <= 122 THEN c - 71
  ELSE IF c >= 48 /\ c <= 57 THEN c + 4
  ELSE IF c = 43 THEN 62 ELSE 63

RECURSIVE Base64Sextets(_)
\* the sextets of the characters before the padding
Base64Sextets(s) ==
  IF s = << >> \/ Head(s) = PadChar THEN << >>
  ELSE << Sextet(Head(s)) >> \o Base64Sextets(Tail(s))

RECURSIVE SextetsToBytes(_)
SextetsToBytes(x) ==
  IF Len(x) >= 4 THEN
    LET n == x[1] * 262144 + x[2] * 4096 + x[3] * 64 + x[4]
    IN  << n \div 65536, (n \div 256) % 256, n % 256 >> \o SextetsToBytes(SubSeq(x, 5, Len(x)))
  ELSE IF Len(x) = 3 THEN
    LET n == x[1] * 4096 + x[2] * 64 + x[3]
    IN  << n \div 1024, (n \div 4) % 256 >>
  ELSE IF Len(x) = 2 THEN << (x[1] * 64 + x[2]) \div 16 >>
  ELSE << >>

\* Buffer.from(body, 'base64')
Base64Decode(s) == SextetsToBytes(Base64Sextets(s))

RECURSIVE Utf8Encode(_)
\* Buffer.from(body, 'utf8')
Utf8Encode(s) ==
  IF s = << >> THEN << >>
  ELSE LET c == Head(s)
       IN  (IF c < 128 THEN << c >>
            ELSE IF c < 2048 THEN << 192 + (c \div 64), 128 + (c % 64) >>
            ELSE << 224 + (c \div 4096), 128 + ((c \div 64) % 64), 128 + (c % 64) >>)
           \o Utf8Encode(Tail(s))

DecodeBody(result) ==
  IF result.base64Encoded THEN Base64Decode(result.body) ELSE Utf8Encode(result.body)

\* results of Fetch.getResponseBody: "aGk=" (base64 of "hi"), "hi", and "e-acute" as text
BodyResults ==
  { [body |-> << 97, 71, 107, 61 >>, base64Encoded |-> TRUE],
    [body |-> << 104, 105 >>,        base64Encoded |-> FALSE],
    [body |-> << 233 >>,             base64Encoded |-> FALSE] }

\* errors a CDP command can be rejected with
Errors == { "Target closed", "Session closed" }

(***************************************************************************)
(* Fetch.requestPaused events.                                             *)
(***************************************************************************)
RedirectStatuses == { 301, 302, 307, 308 }

NotModified == 304

\* responses that carry a body: status, status text and headers
FinalResponses ==
  { [ responseStatusCode |-> 200, responseStatusText |-> "OK",
      responseHeaders |-> << [name |-> ContentLengthHeader, value |-> "2"],
                             [name |-> ContentTypeHeader, value |-> "text/css"] >> ],
    [ responseStatusCode |-> 404, responseStatusText |-> NoValue, responseHeaders |-> << >> ] }

\* redirects and 304
BodylessResponses ==
  { [ responseStatusCode |-> c, responseStatusText |-> NoValue, responseHeaders |-> << >> ] :
      c \in RedirectStatuses \cup { NotModified } }

\* a pause at the request stage (no response field) or at the response stage with an error
NoResponses ==
  { [ responseStatusCode |-> NoStatus, responseStatusText |-> NoValue, responseHeaders |-> << >> ] }

Event(method, url, response, errorReason) ==
  [ method |-> method, url |-> url, responseStatusCode |-> response.responseStatusCode,
    responseStatusText |-> response.responseStatusText, responseErrorReason |-> errorReason,
    responseHeaders |-> response.responseHeaders ]

Events ==
  { Event(m, u, r, NoValue) :
      m \in Methods, u \in UrlStrings, r \in FinalResponses \cup BodylessResponses \cup NoResponses }
  \cup { Event(m, u, r, "Failed") : m \in Methods, u \in UrlStrings, r \in NoResponses }

\* JavaScript truthiness of an optional number and of an optional string
TruthyNumber(n) == n # 0

TruthyString(v) == v # NoValue /\ v # ""

(***************************************************************************)
(* State of the Watcher.                                                   *)
(***************************************************************************)
VARIABLES
  archive,                \* Watcher.archive: URL string -> ArchiveResponse
  firstUrl,               \* Watcher.firstUrl: the parsed URL, or NoUrl
  firstRequest,           \* the request (url and method) that firstUrl was set from
  allowedArchiveOrigins,  \* Watcher.allowedArchiveOrigins
  handlers,               \* the suspended invocations of requestPaused (a bag)
  delivered,              \* number of requestPaused events delivered so far
  settled                 \* how the finished invocations ended: returned or threw

watcherVars ==
  << archive, firstUrl, firstRequest, allowedArchiveOrigins, handlers, delivered, settled >>

\* firstUrl before its assignment
NoUrl == [ href |-> "", origin |-> "" ]

NoRequest == [ url |-> NoValue, method |-> << >> ]

\* archive values
NoEntry == [ kind |-> "none" ]

Failed(error) == [ kind |-> "Failed", error |-> error ]

Captured(statusCode, statusText, body, contentType) ==
  [ kind |-> "Captured", statusCode |-> statusCode, statusText |-> statusText,
    body |-> body, contentType |-> contentType ]

\* commands passed to client.send
ContinueRequest(interceptResponse) ==
  [ method |-> "Fetch.continueRequest", interceptResponse |-> interceptResponse ]

GetResponseBody == [ method |-> "Fetch.getResponseBody", interceptResponse |-> FALSE ]

\* the constructor: `https://${domain}` for each allowed domain
AllowedOrigins(allowedDomains) == { "https://" \o d : d \in allowedDomains }

\* the allowedDomains argument: absent, or naming the CDN
AllowedDomainLists == { {}, { "cdn.other.test" } }

WatcherInit ==
  /\ archive = [ s \in UrlStrings |-> NoEntry ]
  /\ firstUrl = NoUrl
  /\ firstRequest = NoRequest
  /\ allowedArchiveOrigins \in { AllowedOrigins(ds) : ds \in AllowedDomainLists }
  /\ handlers = EmptyBag
  /\ delivered = 0
  /\ settled = [ returned |-> 0, threw |-> 0 ]

(***************************************************************************)
(* State of the calls of Watcher.idle.                                     *)
(***************************************************************************)
VARIABLES
  idles,      \* one record per call of idle(), in call order
  warnings    \* number of "Global timeout ... reached" warnings logged

idleVars == << idles, warnings >>

\* the calls of idle() made so far
IdleCalls == 1..Len(idles)

\* a call of idle() suspended at the await of line 81: the timer is armed and
\* neither promise of the race has settled
Racing ==
  [ pc |-> "racing", globalNetworkTimer |-> "armed", networkIdle |-> "pending",
    race |-> "pending" ]

IdleInit ==
  /\ idles = << >>
  /\ warnings = 0

(***************************************************************************)
(* The client (the browser behind the CDP session): the exchanges it       *)
(* pauses and delivers to the handler as Fetch.requestPaused events.       *)
(***************************************************************************)
VARIABLES
  exchanges   \* per exchange (requestId): the pauses still to come and the invocation handling it

clientVars == << exchanges >>

\* no exchange is followed
ClientUnused == exchanges = << >>

(***************************************************************************)
(* DOMSnapshot (src/src/write-archive/dom-snapshot.ts).  Texts are         *)
(* sequences of one-character strings.  The state is the parsed snapshot   *)
(* (this.snapshot), the source map, and the results of mapSourceEntries    *)
(* and of mapCssUrls.                                                      *)
(***************************************************************************)
VARIABLES
  sourceMap,            \* the Map passed to mapSourceEntries: key text -> value text
  snapshot,             \* this.snapshot, the tree given to the constructor
  transformedSnapshot,  \* the tree mapSourceEntries produces
  remappedSnapshot,     \* the tree a second mapSourceEntries produces from the first
  cssParts,             \* the pieces the CSS text is made of
  mappedCssText         \* the result of mapCssUrls on that text

rewriterVars ==
  << sourceMap, snapshot, transformedSnapshot, remappedSnapshot, cssParts, mappedCssText >>

\* the characters that close the URL token of CSS_URL_REGEX: [^'")]
Quotes == { "'", "\"" }

TokenStops == Quotes \cup { ")" }

\* the i flag of CSS_URL_REGEX, on the letters of its literals
IgnoreCase(c) ==
  CASE c = "U" -> "u" [] c = "R" -> "r" [] c = "L" -> "l"
    [] c = "D" -> "d" [] c = "A" -> "a" [] c = "T" -> "t"
    [] OTHER -> c

\* the literal `url(` and the literal `data:` of CSS_URL_REGEX
UrlOpen == << "u", "r", "l", "(" >>

DataScheme == << "d", "a", "t", "a", ":" >>

\* the literal occurs in text at index i, compared without regard to case
LiteralAt(text, i, literal) ==
  /\ i + Len(literal) - 1 <= Len(text)
  /\ \A k \in 1..Len(literal) : IgnoreCase(text[i + k - 1]) = literal[k]

\* the lookahead (?!['"]?(?:data):) at index j
DataAhead(text, j) ==
  \/ LiteralAt(text, j, DataScheme)
  \/ j <= Len(text) /\ text[j] \in Quotes /\ LiteralAt(text, j + 1, DataScheme)

\* the ways ['"]?([^'")]*)['"]?\) can match from index j: an opening quote or
\* none (q1), n token characters, a closing quote or none (q2), then `)`
TokenMatches(text, j) ==
  { m \in [ q1 : 0..1, n : 0..Len(text), q2 : 0..1 ] :
      /\ j + m.q1 + m.n + m.q2 <= Len(text)
      /\ m.q1 = 1 => text[j] \in Quotes
      /\ \A k \in 1..m.n : text[j + m.q1 + k - 1] \notin TokenStops
      /\ m.q2 = 1 => text[j + m.q1 + m.n] \in Quotes
      /\ text[j + m.q1 + m.n + m.q2] = ")" }

\* the order in which the regex tries them: each quantifier is greedy
TriedBefore(m1, m2) ==
  \/ m1.q1 > m2.q1
  \/ m1.q1 = m2.q1 /\ m1.n > m2.n
  \/ m1.q1 = m2.q1 /\ m1.n = m2.n /\ m1.q2 >= m2.q2

\* the match of CSS_URL_REGEX that starts at index i, if there is one: its last
\* index and its capture group
CssUrlMatchAt(text, i) ==
  LET j == i + Len(UrlOpen)
      ms == TokenMatches(text, j)
  IN  IF LiteralAt(text, i, UrlOpen) /\ ~DataAhead(text, j) /\ ms # {}
        THEN LET m == CHOOSE m1 \in ms : \A m2 \in ms : TriedBefore(m1, m2)
             IN  [ found |-> TRUE, last |-> j + m.q1 + m.n + m.q2,
                   fullUrl |-> SubSeq(text, j + m.q1, j + m.q1 + m.n - 1) ]
        ELSE [ found |-> FALSE, last |-> i, fullUrl |-> << >> ]

\* String.prototype.indexOf: the first index at which pattern occurs in str, 0 if none
IndexOf(str, pattern) ==
  LET hits == { i \in 1..(Len(str) + 1) :
                  /\ i + Len(pattern) - 1 <= Len(str)
                  /\ SubSeq(str, i, i + Len(pattern) - 1) = pattern }
  IN  IF hits = {} THEN 0 ELSE CHOOSE i \in hits : \A k \in hits : i <= k

\* the replacement patterns of String.prototype.replace with a string pattern:
\* $$, $&, $` and $' (any other $ stands for itself)
RECURSIVE GetSubstitution(_, _, _, _)
GetSubstitution(replacement, matched, before, after) ==
  IF replacement = << >> THEN << >>
  ELSE IF Head(replacement) = "$" /\ Len(replacement) >= 2
    THEN LET c    == replacement[2]
             rest == GetSubstitution(SubSeq(replacement, 3, Len(replacement)),
                                     matched, before, after)
         IN  CASE c = "$" -> << "$" >> \o rest
               [] c = "&" -> matched \o rest
               [] c = "`" -> before \o rest
               [] c = "'" -> after \o rest
               [] OTHER   -> << "$" >> \o GetSubstitution(Tail(replacement),
                                                          matched, before, after)
    ELSE << Head(replacement) >> \o GetSubstitution(Tail(replacement), matched, before, after)

\* str.replace(pattern, replacement) with a string pattern: the first occurrence only
StringReplace(str, pattern, replacement) ==
  LET i      == IndexOf(str, pattern)
      before == SubSeq(str, 1, i - 1)
      after  == SubSeq(str, i + Len(pattern), Len(str))
  IN  IF i = 0 THEN str
      ELSE before \o GetSubstitution(replacement, pattern, before, after) \o after

\* the callback of lines 83-89
ReplaceCssUrl(match, fullUrl, map) ==
  IF fullUrl \in DOMAIN map THEN StringReplace(match, fullUrl, map[fullUrl]) ELSE match

\* cssText.replace(CSS_URL_REGEX, callback) from index i on: every match, left to
\* right, each search resuming after the previous match
RECURSIVE ReplaceAllFrom(_, _, _)
ReplaceAllFrom(cssText, i, map) ==
  IF i > Len(cssText) THEN << >>
  ELSE LET m == CssUrlMatchAt(cssText, i)
       IN  IF m.found
             THEN ReplaceCssUrl(SubSeq(cssText, i, m.last), m.fullUrl, map)
                    \o ReplaceAllFrom(cssText, m.last + 1, map)
             ELSE << cssText[i] >> \o ReplaceAllFrom(cssText, i + 1, map)

\* DOMSnapshot.mapCssUrls
MapCssUrls(cssText, map) == ReplaceAllFrom(cssText, 1, map)

\* a node of the snapshot (serializedNodeWithId): Document and Element nodes have
\* childNodes, Element nodes have attributes, Text nodes have textContent and isStyle
Node(id, type, attributes, childNodes, textContent, isStyle) ==
  [ id |-> id, type |-> type, attributes |-> attributes, childNodes |-> childNodes,
    textContent |-> textContent, isStyle |-> isStyle ]

\* no attributes
NoAttributes == [ name \in {} |-> << >> ]

\* JavaScript truthiness of an attribute: present and not the empty string
HasAttribute(attributes, name) == name \in DOMAIN attributes /\ attributes[name] # << >>

\* the attributes that hold CSS text
CssAttributes == { "style", "_cssText" }

\* (as MapAttribute, treating href as src is treated)
MapAttributeAndHref(attributes, name, map) ==
  IF name \in { "src", "href" } /\ HasAttribute(attributes, name)
    THEN IF attributes[name] \in DOMAIN map THEN map[attributes[name]] ELSE attributes[name]
  ELSE IF name \in CssAttributes /\ HasAttribute(attributes, name)
    THEN MapCssUrls(attributes[name], map)
  ELSE attributes[name]

\* the value mapNodeAttributes leaves in attribute name (lines 46-65)
MapAttribute(attributes, name, map) ==
  IF name = "src" /\ HasAttribute(attributes, name)
    THEN IF attributes[name] \in DOMAIN map THEN map[attributes[name]] ELSE attributes[name]
  ELSE IF name \in CssAttributes /\ HasAttribute(attributes, name)
    THEN MapCssUrls(attributes[name], map)
  ELSE attributes[name]

\* DOMSnapshot.mapNodeAttributes
MapNodeAttributes(node, map) ==
  IF node.type = "Element"
    THEN [ node EXCEPT !.attributes =
             [ name \in DOMAIN node.attributes |-> MapAttribute(node.attributes, name, map) ] ]
    ELSE node

\* DOMSnapshot.mapTextElement
MapTextElement(node, map) ==
  IF node.type = "Text" /\ node.isStyle /\ node.textContent # << >>
    THEN [ node EXCEPT !.textContent = MapCssUrls(node.textContent, map) ]
    ELSE node

\* 'childNodes' in node
HasChildNodes(node) == node.type \in { "Document", "Element" }

\* DOMSnapshot.mapNode
RECURSIVE MapNode(_, _)
MapNode(node, map) ==
  LET mapped == MapTextElement(MapNodeAttributes(node, map), map)
  IN  IF HasChildNodes(mapped)
        THEN [ mapped EXCEPT !.childNodes =
                 [ k \in 1..Len(mapped.childNodes) |-> MapNode(mapped.childNodes[k], map) ] ]
        ELSE mapped

(***************************************************************************)
(* Inputs of the DOMSnapshot: source maps, CSS texts and snapshot trees.   *)
(***************************************************************************)
MaxParts == 2

MaxChildNodes == 2

\* URL tokens: "a", "c", "url", "data:a", and a data: URL whose payload holds url(a
TokenA == << "a" >>

TokenC == << "c" >>

TokenUrl == << "u", "r", "l" >>

TokenData == DataScheme \o TokenA

TokenDataNested == DataScheme \o << "," >> \o UrlOpen \o TokenA

Tokens == { TokenA, TokenC, TokenUrl, TokenData, TokenDataNested }

\* archived locations: "b", and "b)url(a"
LocationB == << "b" >>

LocationClosing == LocationB \o << ")" >> \o UrlOpen \o TokenA

\* the source maps: empty; one that maps "a", "url" and "data:a"; and two in
\* which every value is a key that maps to itself
EmptySourceMap == [ key \in {} |-> << >> ]

SourceMaps ==
  { EmptySourceMap,
    (TokenA :> LocationB) @@ (TokenUrl :> LocationB) @@ (TokenData :> LocationB),
    (TokenA :> LocationB) @@ (LocationB :> LocationB),
    (TokenA :> LocationClosing) @@ (LocationClosing :> LocationClosing) }

\* a piece of CSS text: a url(...) occurrence (prefix, quote, token, quote, `)`)
\* or other text
UrlPart(prefix, quote, token) ==
  [ kind |-> "url", prefix |-> prefix, quote |-> quote, token |-> token, text |-> << >> ]

TextPart(text) ==
  [ kind |-> "text", prefix |-> << >>, quote |-> << >>, token |-> << >>, text |-> text ]

Parts ==
  { UrlPart(prefix, quote, token) :
      prefix \in { UrlOpen, << "U", "R", "L", "(" >> },
      quote \in { << >>, << "'" >>, << "\"" >> },
      token \in Tokens }
  \cup { TextPart(<< ";", " " >>) }

PartText(part) ==
  IF part.kind = "url"
    THEN part.prefix \o part.quote \o part.token \o part.quote \o << ")" >>
    ELSE part.text

\* the CSS text the pieces make
RECURSIVE CssText(_)
CssText(parts) ==
  IF parts = << >> THEN << >> ELSE PartText(Head(parts)) \o CssText(Tail(parts))

CssTexts == UNION { [ 1..n -> Parts ] : n \in 0..MaxParts }

\* "url(a)"
CssSample == UrlOpen \o TokenA \o << ")" >>

\* the nodes a child position can hold, with identifier id (a nested child gets id + 1)
Subtrees(id) ==
  { Node(id, "Element", ("src" :> TokenA) @@ ("href" :> TokenA), << >>, << >>, FALSE),
    Node(id, "Element", ("src" :> TokenC) @@ ("style" :> CssSample), << >>, << >>, FALSE),
    Node(id, "Element", ("_cssText" :> CssSample) @@ ("src" :> << >>), << >>, << >>, FALSE),
    Node(id, "Text", NoAttributes, << >>, CssSample, TRUE),
    Node(id, "Text", NoAttributes, << >>, CssSample, FALSE),
    Node(id, "Comment", NoAttributes, << >>, CssSample, FALSE),
    Node(id, "Element", NoAttributes,
         << Node(id + 1, "Text", NoAttributes, << >>, CssSample, TRUE) >>, << >>, FALSE) }

\* the children of the root element: child k has identifier 10 * k
ChildLists ==
  UNION { { children \in [ 1..n -> UNION { Subtrees(10 * k) : k \in 1..n } ] :
              \A k \in 1..n : children[k] \in Subtrees(10 * k) } : n \in 0..MaxChildNodes }

\* a Document whose root element has those children
Snapshots ==
  { Node(1, "Document", NoAttributes,
         << Node(2, "Element", NoAttributes, children, << >>, FALSE) >>, << >>, FALSE) :
      children \in ChildLists }

\* before the constructor, mapSourceEntries or mapCssUrls has run
NoSnapshot == Node(0, "none", NoAttributes, << >>, << >>, FALSE)

NotMapped == [ returned |-> FALSE, text |-> << >> ]

\* no DOMSnapshot in use
RewriterUnused ==
  /\ sourceMap = EmptySourceMap
  /\ snapshot = NoSnapshot
  /\ transformedSnapshot = NoSnapshot
  /\ remappedSnapshot = NoSnapshot
  /\ cssParts = << >>
  /\ mappedCssText = NotMapped

\* a Watcher that is not used: constructed without allowed domains, no idle() call
WatcherUnused == WatcherInit /\ allowedArchiveOrigins = {} /\ IdleInit /\ ClientUnused

\* new DOMSnapshot(snapshot), and a source map
SnapshotInit ==
  /\ WatcherUnused
  /\ sourceMap \in SourceMaps
  /\ snapshot \in Snapshots
  /\ transformedSnapshot = NoSnapshot
  /\ remappedSnapshot = NoSnapshot
  /\ cssParts = << >>
  /\ mappedCssText = NotMapped

\* a CSS text and a source map
CssInit ==
  /\ WatcherUnused
  /\ sourceMap \in SourceMaps
  /\ cssParts \in CssTexts
  /\ mappedCssText = NotMapped
  /\ snapshot = NoSnapshot
  /\ transformedSnapshot = NoSnapshot
  /\ remappedSnapshot = NoSnapshot

\* mapSourceEntries(sourceMap): the tree is mapped (in place) and returned
MapSourceEntries ==
  /\ snapshot # NoSnapshot
  /\ transformedSnapshot = NoSnapshot
  /\ transformedSnapshot' = MapNode(snapshot, sourceMap)
  /\ UNCHANGED << sourceMap, snapshot, remappedSnapshot, cssParts, mappedCssText,
                  watcherVars, idleVars, clientVars >>

\* mapSourceEntries(sourceMap) once more, on the tree the first call left
MapSourceEntriesAgain ==
  /\ transformedSnapshot # NoSnapshot
  /\ remappedSnapshot = NoSnapshot
  /\ remappedSnapshot' = MapNode(transformedSnapshot, sourceMap)
  /\ UNCHANGED << sourceMap, snapshot, transformedSnapshot, cssParts, mappedCssText,
                  watcherVars, idleVars, clientVars >>

\* mapCssUrls(cssText, sourceMap)
MapCssUrlsCall ==
  /\ cssParts # << >>
  /\ ~mappedCssText.returned
  /\ mappedCssText' = [ returned |-> TRUE, text |-> MapCssUrls(CssText(cssParts), sourceMap) ]
  /\ UNCHANGED << sourceMap, snapshot, transformedSnapshot, remappedSnapshot, cssParts,
                  watcherVars, idleVars, clientVars >>

SnapshotNext == MapSourceEntries \/ MapSourceEntriesAgain

CssNext == MapCssUrlsCall

(***************************************************************************)
(* Watcher.requestPaused.  An invocation runs from the event to its first  *)
(* await (RequestPaused) and is resumed when the awaited command settles.  *)
(* A suspended invocation is at one of the handler's seven awaits.         *)
(***************************************************************************)
\* (as Classify, without the test for a redirect status)
ClassifyNoRedirect(e) ==
  IF ~MatchesGet(e.method) THEN "SkipNonGet"
  ELSE IF e.responseStatusCode = NotModified THEN "SkipNotModified"
  ELSE IF TruthyString(e.responseErrorReason) THEN "SkipError"
  ELSE IF TruthyNumber(e.responseStatusCode) THEN "CaptureFinal"
  ELSE "AwaitResponse"

\* (as Classify, without the test for 304)
ClassifyNoNotModified(e) ==
  IF ~MatchesGet(e.method) THEN "SkipNonGet"
  ELSE IF TruthyString(e.responseErrorReason) THEN "SkipError"
  ELSE IF TruthyNumber(e.responseStatusCode) THEN
         IF e.responseStatusCode \in RedirectStatuses THEN "DeferRedirect" ELSE "CaptureFinal"
  ELSE "AwaitResponse"

\* the six outcomes of the classification, in the order the code tests them
Classify(e) ==
  IF ~MatchesGet(e.method) THEN "SkipNonGet"
  ELSE IF e.responseStatusCode = NotModified THEN "SkipNotModified"
  ELSE IF TruthyString(e.responseErrorReason) THEN "SkipError"
  ELSE IF TruthyNumber(e.responseStatusCode) THEN
         IF e.responseStatusCode \in RedirectStatuses THEN "DeferRedirect" ELSE "CaptureFinal"
  ELSE "AwaitResponse"

\* the early returns that precede `this.firstUrl ??= requestUrl`
SkipsEarly(e) == Classify(e) \in { "SkipNonGet", "SkipNotModified" }

\* (as FirstCommand, the continue commands of a redirect and of a pause at the
\* request stage sent without interceptResponse)
FirstCommandNoIntercept(e) ==
  CASE Classify(e) \in { "SkipNonGet", "SkipNotModified", "SkipError" } -> ContinueRequest(FALSE)
    [] Classify(e) \in { "DeferRedirect", "AwaitResponse" }             -> ContinueRequest(FALSE)
    [] Classify(e) = "CaptureFinal"                                     -> GetResponseBody

\* the command the invocation sends before its first await
FirstCommand(e) ==
  CASE Classify(e) \in { "SkipNonGet", "SkipNotModified", "SkipError" } -> ContinueRequest(FALSE)
    [] Classify(e) \in { "DeferRedirect", "AwaitResponse" }             -> ContinueRequest(TRUE)
    [] Classify(e) = "CaptureFinal"                                     -> GetResponseBody

\* the await the invocation first suspends at: the outcome's continue command, or
\* the body fetch of a CaptureFinal
FirstAwait(e) == IF FirstCommand(e) = GetResponseBody THEN "FetchBody" ELSE Classify(e)

\* the awaits of a continue command (lines 113, 119, 142, 149, 181, 185)
ContinueAwaits ==
  { "SkipNonGet", "SkipNotModified", "SkipError", "DeferRedirect", "CaptureFinal", "AwaitResponse" }

\* (as IsRequestFromAllowedDomain, without the origin test)
IsRequestFromAnyDomain(requestUrl, first, allowed) == TRUE

\* requestUrl.origin === this.firstUrl.origin || allowedArchiveOrigins.includes(requestUrl.origin)
IsRequestFromAllowedDomain(requestUrl, first, allowed) ==
  requestUrl.origin = first.origin \/ requestUrl.origin \in allowed

\* (as IsFirstRequest, comparing the request's href with firstUrl's origin)
IsFirstRequestByOrigin(requestUrl, first) == requestUrl.href = first.origin

\* requestUrl.toString() === this.firstUrl.toString()
IsFirstRequest(requestUrl, first) == requestUrl.href = first.href

\* a suspended invocation: where it waits, the commands it has sent, and those of
\* its variables that a later statement reads
Suspended(pc, e, allowed, commands) ==
  [ pc |-> pc, url |-> e.url, sent |-> commands,
    responseStatusCode |-> IF pc = "FetchBody" THEN e.responseStatusCode ELSE NoStatus,
    responseStatusText |-> IF pc = "FetchBody" THEN e.responseStatusText ELSE NoValue,
    responseHeaders    |-> IF pc = "FetchBody" THEN e.responseHeaders ELSE << >>,
    isRequestFromAllowedDomain |-> pc = "FetchBody" /\ allowed ]

\* the invocation the handler starts for event e
Started(e, first) ==
  Suspended(FirstAwait(e), e,
            IsRequestFromAllowedDomain(ParseUrl(UrlOf(e.url)), first, allowedArchiveOrigins),
            << FirstCommand(e) >>)

Replace(h, g) == (handlers (-) SetToBag({ h })) (+) SetToBag({ g })

Remove(h) == handlers (-) SetToBag({ h })

Settle(how) == [ settled EXCEPT ![how] = @ + 1 ]

\* the handler runs from the event to its first await
HandlerStarts(e) ==
  LET first == IF firstUrl = NoUrl THEN ParseUrl(UrlOf(e.url)) ELSE firstUrl
  IN  /\ delivered' = delivered + 1
      /\ IF SkipsEarly(e)
           THEN /\ UNCHANGED << firstUrl, firstRequest >>
                /\ handlers' = handlers (+) SetToBag({ Started(e, firstUrl) })
           ELSE /\ firstUrl' = first
                /\ firstRequest' = IF firstUrl = NoUrl
                                     THEN [ url |-> e.url, method |-> e.method ]
                                     ELSE firstRequest
                /\ handlers' = handlers (+) SetToBag({ Started(e, first) })
      /\ UNCHANGED << archive, allowedArchiveOrigins, settled >>

\* an event is delivered
RequestPaused(e) ==
  /\ delivered < MaxEvents
  /\ HandlerStarts(e)
  /\ UNCHANGED << idleVars, rewriterVars, clientVars >>

\* (as ClientSendCatch, without the try/catch: the rejection reaches the handler)
ClientSendNoCatch(h, error) == [ archive |-> archive, threw |-> TRUE ]

\* (as ClientSendCatch, recording the error only where no response was captured)
ClientSendCatchKeepsCaptured(h, error) ==
  [ archive |-> IF archive[h.url].kind = "Captured"
                  THEN archive
                  ELSE [ archive EXCEPT ![h.url] = Failed(error) ],
    threw |-> FALSE ]

\* clientSend when client.send rejects: the catch block records the error under
\* request.url and returns null, so nothing is thrown to the handler
ClientSendCatch(h, error) ==
  [ archive |-> [ archive EXCEPT ![h.url] = Failed(error) ], threw |-> FALSE ]

\* `if (result === null) return;` after the body fetch
ReturnsOnNullBody(h) == TRUE

\* (as ArchiveAfterBody, keeping an entry that is already there)
ArchiveAfterBodyIfAbsent(h, result) ==
  IF /\ h.isRequestFromAllowedDomain
     /\ ~IsFirstRequest(ParseUrl(UrlOf(h.url)), firstUrl)
     /\ archive[h.url] = NoEntry
    THEN [ archive EXCEPT ![h.url] =
             Captured(h.responseStatusCode, h.responseStatusText, DecodeBody(result),
                      ContentTypeValue(h.responseHeaders)) ]
    ELSE archive

\* the archive after the body has been fetched (lines 163-179)
ArchiveAfterBody(h, result) ==
  IF h.isRequestFromAllowedDomain /\ ~IsFirstRequest(ParseUrl(UrlOf(h.url)), firstUrl)
    THEN [ archive EXCEPT ![h.url] =
             Captured(h.responseStatusCode, h.responseStatusText, DecodeBody(result),
                      ContentTypeValue(h.responseHeaders)) ]
    ELSE archive

\* (as ContinueAfterBody, sending the continue command once in the capture branch
\* and once after it)
ContinueTwiceAfterBody(h) ==
  Suspended("CaptureFinal", h, FALSE,
            h.sent \o << ContinueRequest(FALSE), ContinueRequest(FALSE) >>)

\* the continue command of line 181, sent whether or not the response was captured
ContinueAfterBody(h) ==
  Suspended("CaptureFinal", h, FALSE, Append(h.sent, ContinueRequest(FALSE)))

\* the handler is resumed with the body: capture, then send the continue command
HandlerCaptures(h, result) ==
  /\ h.pc = "FetchBody"
  /\ archive' = ArchiveAfterBody(h, result)
  /\ handlers' = Replace(h, ContinueAfterBody(h))
  /\ UNCHANGED << firstUrl, firstRequest, allowedArchiveOrigins, delivered, settled >>

\* Fetch.getResponseBody resolves
GetResponseBodyResolves(h, result) ==
  /\ HandlerCaptures(h, result)
  /\ UNCHANGED << idleVars, rewriterVars, clientVars >>

\* Fetch.getResponseBody rejects: clientSend returns null and the handler returns
GetResponseBodyRejects(h, error) ==
  LET caught == ClientSendCatch(h, error)
  IN  /\ h.pc = "FetchBody"
      /\ archive' = caught.archive
      /\ IF caught.threw
           THEN handlers' = Remove(h) /\ settled' = Settle("threw")
           ELSE IF ReturnsOnNullBody(h)
             THEN handlers' = Remove(h) /\ settled' = Settle("returned")
             ELSE handlers' = Replace(h, ContinueAfterBody(h)) /\ UNCHANGED settled
      /\ UNCHANGED << firstUrl, firstRequest, allowedArchiveOrigins, delivered, idleVars, rewriterVars, clientVars >>

\* the handler is resumed after its continue command and returns
HandlerReturns(h) ==
  /\ h.pc \in ContinueAwaits
  /\ handlers' = Remove(h)
  /\ settled' = Settle("returned")
  /\ UNCHANGED << archive, firstUrl, firstRequest, allowedArchiveOrigins, delivered >>

\* Fetch.continueRequest resolves
ContinueResolves(h) ==
  /\ HandlerReturns(h)
  /\ UNCHANGED << idleVars, rewriterVars, clientVars >>

\* Fetch.continueRequest rejects: clientSend records the error and the handler returns
ContinueRejects(h, error) ==
  LET caught == ClientSendCatch(h, error)
  IN  /\ h.pc \in ContinueAwaits
      /\ archive' = caught.archive
      /\ handlers' = Remove(h)
      /\ settled' = Settle(IF caught.threw THEN "threw" ELSE "returned")
      /\ UNCHANGED << firstUrl, firstRequest, allowedArchiveOrigins, delivered, idleVars, rewriterVars, clientVars >>

WatcherNext ==
  \/ \E e \in Events : RequestPaused(e)
  \/ \E h \in BagToSet(handlers), result \in BodyResults : GetResponseBodyResolves(h, result)
  \/ \E h \in BagToSet(handlers), error \in Errors : GetResponseBodyRejects(h, error)
  \/ \E h \in BagToSet(handlers) : ContinueResolves(h)
  \/ \E h \in BagToSet(handlers), error \in Errors : ContinueRejects(h, error)

(***************************************************************************)
(* Watcher.setResponse, and the handler together with it: exchanges of the *)
(* page and of one of its resources, with manual overrides of their        *)
(* entries.                                                                *)
(***************************************************************************)
\* responses a caller passes to setResponse: either shape of ArchiveResponse
ManualResponses ==
  { Captured(200, "OK", << 111, 107 >>, "text/plain"), Failed("Manual") }

\* the URLs that are overridden
ManualUrls == { "https://example.com/", "https://example.com/logo.png" }

\* GET exchanges of those URLs that are paused with a final response
ManualEvents ==
  { e \in Events : /\ e.method = << 71, 69, 84 >>
                   /\ e.url \in ManualUrls
                   /\ Classify(e) = "CaptureFinal" }

\* setResponse(url, response): this.archive[url] = response
SetResponse(url, response) ==
  /\ archive' = [ archive EXCEPT ![url] = response ]
  /\ UNCHANGED << firstUrl, firstRequest, allowedArchiveOrigins, handlers, delivered,
                  settled, idleVars, rewriterVars, clientVars >>

SetResponseNext ==
  \/ \E e \in ManualEvents : RequestPaused(e)
  \/ \E h \in BagToSet(handlers), result \in BodyResults : GetResponseBodyResolves(h, result)
  \/ \E h \in BagToSet(handlers), error \in Errors : GetResponseBodyRejects(h, error)
  \/ \E h \in BagToSet(handlers) : ContinueResolves(h)
  \/ \E h \in BagToSet(handlers), error \in Errors : ContinueRejects(h, error)
  \/ \E url \in ManualUrls, response \in ManualResponses : SetResponse(url, response)

(***************************************************************************)
(* Watcher.idle.  A call arms the global timer, starts the network-idle    *)
(* wait and suspends on the race of the two promises; it is resumed once   *)
(* the race has settled.  networkTimeoutMs is the delay of the timer: an   *)
(* armed timer fires at some later turn of the event loop.                 *)
(***************************************************************************)
MaxIdleCalls == 2

\* (as RaceSettles, the race settling again each time one of its promises does)
RaceSettlesAgain(race, outcome) == outcome

\* Promise.race settles as the first of its promises to settle does
RaceSettles(race, outcome) == IF race = "pending" THEN outcome ELSE race

\* (as TimeoutOutcome, the timeout promise rejecting when the timer fires)
TimeoutRejects == "rejected"

\* the timer callback calls globalNetworkResolver(): the timeout promise fulfils
TimeoutOutcome == "fulfilled"

\* clearTimeout(globalNetworkTimerId): an armed timer is cancelled, a timer that
\* has fired is left as it is
ClearTimeout(timer) == IF timer = "armed" THEN "cleared" ELSE timer

\* outcomes of page.waitForLoadState('networkidle')
LoadStateOutcomes == { "fulfilled", "rejected" }

\* idle() is called: lines 59-81 up to the await
Idle ==
  /\ Len(idles) < MaxIdleCalls
  /\ idles' = Append(idles, Racing)
  /\ UNCHANGED << warnings, watcherVars, rewriterVars, clientVars >>

\* the global timer of call i fires: the callback of lines 69-72
GlobalNetworkTimerFires(i) ==
  /\ idles[i].globalNetworkTimer = "armed"
  /\ warnings' = warnings + 1
  /\ idles' = [ idles EXCEPT ![i].globalNetworkTimer = "fired",
                             ![i].race = RaceSettles(@, TimeoutOutcome) ]
  /\ UNCHANGED << watcherVars, rewriterVars, clientVars >>

\* the network-idle wait of call i settles: the finally callback of lines 77-79
\* clears the timer, then networkIdlePromise settles as the wait did
WaitForLoadStateSettles(i, outcome) ==
  /\ idles[i].networkIdle = "pending"
  /\ idles' = [ idles EXCEPT ![i].networkIdle = outcome,
                             ![i].globalNetworkTimer = ClearTimeout(@),
                             ![i].race = RaceSettles(@, outcome) ]
  /\ UNCHANGED << warnings, watcherVars, rewriterVars, clientVars >>

\* (as IdleResumes, the completed call abandoning the handlers in flight)
IdleResumesCancelling(i) ==
  /\ idles[i].pc = "racing"
  /\ idles[i].race # "pending"
  /\ idles' = [ idles EXCEPT ![i].pc = IF idles[i].race = "fulfilled" THEN "returned"
                                                                     ELSE "threw" ]
  /\ handlers' = EmptyBag
  /\ UNCHANGED << warnings, archive, firstUrl, firstRequest, allowedArchiveOrigins,
                  delivered, settled, rewriterVars, clientVars >>

\* the await of line 81 completes: idle() returns, or raises what the race
\* rejected with
IdleResumes(i) ==
  /\ idles[i].pc = "racing"
  /\ idles[i].race # "pending"
  /\ idles' = [ idles EXCEPT ![i].pc = IF idles[i].race = "fulfilled" THEN "returned"
                                                                     ELSE "threw" ]
  /\ UNCHANGED << warnings, watcherVars, rewriterVars, clientVars >>

IdleNext ==
  \/ Idle
  \/ \E i \in IdleCalls : GlobalNetworkTimerFires(i)
  \/ \E i \in IdleCalls, outcome \in LoadStateOutcomes : WaitForLoadStateSettles(i, outcome)
  \/ \E i \in IdleCalls : IdleResumes(i)

(***************************************************************************)
(* A page load: exchanges of the page and of one of its resources are      *)
(* paused while one call of idle() is awaited; the handlers and idle()     *)
(* share nothing, and their steps interleave freely.                       *)
(***************************************************************************)
\* no call of idle() has completed yet
IdlePending == \A i \in IdleCalls : idles[i].pc = "racing"

PageLoadNext ==
  \/ \E e \in ManualEvents : IdlePending /\ RequestPaused(e)
  \/ \E h \in BagToSet(handlers), result \in BodyResults : GetResponseBodyResolves(h, result)
  \/ \E h \in BagToSet(handlers), error \in Errors : GetResponseBodyRejects(h, error)
  \/ \E h \in BagToSet(handlers) : ContinueResolves(h)
  \/ \E h \in BagToSet(handlers), error \in Errors : ContinueRejects(h, error)
  \/ idles = << >> /\ Idle
  \/ \E i \in IdleCalls : GlobalNetworkTimerFires(i)
  \/ \E i \in IdleCalls, outcome \in LoadStateOutcomes : WaitForLoadStateSettles(i, outcome)
  \/ \E i \in IdleCalls : IdleResumes(i)

(***************************************************************************)
(* The handler and the client together.  The client pauses each GET        *)
(* exchange at the request stage; when the continue command of a pause     *)
(* carried interceptResponse it pauses the exchange again at its next      *)
(* response (a redirect hop, then the final response, the 304 or the       *)
(* error), and otherwise lets it go.  No command is rejected.              *)
(***************************************************************************)
\* the longest redirect chain of an exchange
MaxRedirects == 1

\* the exchange of the page and the exchange of one of its resources
ExchangeIds == { "page", "resource" }

PageUrl == "https://example.com/"

ResourceUrls == { "https://example.com/logo.png", "https://cdn.other.test/font.woff2" }

\* a pause: the response fields its event carries
Pause(response, errorReason) == [ response |-> response, errorReason |-> errorReason ]

\* the pause at the request stage
RequestStage == Pause(CHOOSE r \in NoResponses : TRUE, NoValue)

\* the pause at a redirect hop
RedirectHop(status) ==
  Pause(CHOOSE r \in BodylessResponses : r.responseStatusCode = status, NoValue)

\* the pauses that end an exchange: a final response, a 304, an error
TerminalPauses ==
  { Pause(r, NoValue) : r \in { f \in FinalResponses : f.responseStatusText = "OK" } }
  \cup { Pause(r, NoValue) : r \in { b \in BodylessResponses : b.responseStatusCode = NotModified } }
  \cup { Pause(r, "Failed") : r \in NoResponses }

\* statuses of the hops of a chain
HopStatuses == { 301, 307 }

\* the pauses of an exchange if each is continued as the protocol expects
PauseChains ==
  { << RequestStage >> \o [ k \in 1..n |-> RedirectHop(status) ] \o << terminal >> :
      n \in 0..MaxRedirects, status \in HopStatuses, terminal \in TerminalPauses }

\* no invocation handles the exchange
NoHandler == [ pc |-> "none" ]

\* an exchange the client is about to pause
Exchange(url, pauses) ==
  [ url |-> url, pauses |-> pauses, state |-> "pausing", handler |-> NoHandler ]

ExchangeInit ==
  /\ WatcherInit
  /\ IdleInit
  /\ RewriterUnused
  /\ exchanges \in { [ x \in ExchangeIds |->
                         IF x = "page" THEN Exchange(PageUrl, p) ELSE Exchange(u, q) ] :
                      p \in PauseChains, q \in PauseChains, u \in ResourceUrls }

\* the Fetch.requestPaused event of the pause exchange x is at
PauseEvent(x) ==
  Event(<< 71, 69, 84 >>, exchanges[x].url, Head(exchanges[x].pauses).response,
        Head(exchanges[x].pauses).errorReason)

\* the client pauses exchange x and the handler starts on its event
ExchangePaused(x) ==
  /\ exchanges[x].state = "pausing"
  /\ exchanges[x].pauses # << >>
  /\ HandlerStarts(PauseEvent(x))
  /\ exchanges' = [ exchanges EXCEPT
                      ![x].state = "paused",
                      ![x].handler = CHOOSE h \in BagToSet(handlers') :
                                        CopiesIn(h, handlers') > CopiesIn(h, handlers) ]
  /\ UNCHANGED << idleVars, rewriterVars >>

\* Fetch.getResponseBody of exchange x resolves
ExchangeBodyFetched(x, result) ==
  /\ exchanges[x].state = "paused"
  /\ HandlerCaptures(exchanges[x].handler, result)
  /\ exchanges' = [ exchanges EXCEPT ![x].handler = ContinueAfterBody(exchanges[x].handler) ]
  /\ UNCHANGED << idleVars, rewriterVars >>

\* Fetch.continueRequest of exchange x resolves: with interceptResponse the client
\* goes on to the next pause of the exchange, without it the exchange is let go
ExchangeContinued(x) ==
  LET h == exchanges[x].handler
  IN  /\ exchanges[x].state = "paused"
      /\ HandlerReturns(h)
      /\ exchanges' = [ exchanges EXCEPT
                          ![x].handler = NoHandler,
                          ![x].state = IF h.sent[Len(h.sent)].interceptResponse
                                         THEN "pausing" ELSE "continued",
                          ![x].pauses = IF h.sent[Len(h.sent)].interceptResponse
                                          THEN Tail(@) ELSE @ ]
      /\ UNCHANGED << idleVars, rewriterVars >>

ExchangeNext ==
  \/ \E x \in ExchangeIds : ExchangePaused(x)
  \/ \E x \in ExchangeIds, result \in BodyResults : ExchangeBodyFetched(x, result)
  \/ \E x \in ExchangeIds : ExchangeContinued(x)

(***************************************************************************)
(* Specifications.                                                         *)
(***************************************************************************)
vars == << watcherVars, idleVars, rewriterVars, clientVars >>

Init == WatcherInit /\ IdleInit /\ RewriterUnused /\ ClientUnused

\* the request handler alone
Next == WatcherNext

Spec == Init /\ [][Next]_vars

\* the request handler and setResponse
SetResponseSpec == Init /\ [][SetResponseNext]_vars

\* the DOMSnapshot on a snapshot tree
SnapshotSpec == SnapshotInit /\ [][SnapshotNext]_vars

\* mapCssUrls on a CSS text
CssSpec == CssInit /\ [][CssNext]_vars

\* calls of idle() alone
IdleSpec == Init /\ [][IdleNext]_vars

\* the request handler and idle() during a page load
PageLoadSpec == Init /\ [][PageLoadNext]_vars

\* the handler and the client that delivers each exchange again
ExchangeSpec == ExchangeInit /\ [][ExchangeNext]_vars

\* the client delivers the pause that is due, and every command sent is answered
ExchangeFairness ==
  \A x \in ExchangeIds :
     /\ WF_vars(ExchangePaused(x))
     /\ WF_vars(\E result \in BodyResults : ExchangeBodyFetched(x, result))
     /\ WF_vars(ExchangeContinued(x))

ExchangeFairSpec == ExchangeSpec /\ ExchangeFairness

\* the event loop runs a timer that is armed and resumes a call whose race has settled
IdleFairness ==
  \A i \in 1..MaxIdleCalls :
     /\ WF_vars(i \in IdleCalls /\ GlobalNetworkTimerFires(i))
     /\ WF_vars(i \in IdleCalls /\ IdleResumes(i))

IdleFairSpec == IdleSpec /\ IdleFairness

(***************************************************************************)
(* Vocabulary of the properties.                                           *)
(***************************************************************************)
\* the request method is GET, compared case-insensitively
IsGet(method) == ToLowerCase(method) = GetPattern

\* the origin and href of a URL string
OriginOf(s) == ParseUrl(UrlOf(s)).origin

HrefOf(s) == ParseUrl(UrlOf(s)).href

\* the URL's origin is firstUrl's origin or one of the allowed origins
Eligible(s) == OriginOf(s) = firstUrl.origin \/ OriginOf(s) \in allowedArchiveOrigins

\* the step adds one suspended invocation g to the bag
Adds(g) == handlers' = handlers (+) SetToBag({ g })

\* the continue commands among the commands an invocation has sent
ContinueCount(commands) ==
  Cardinality({ i \in 1..Len(commands) : commands[i].method = "Fetch.continueRequest" })

\* invocation h is resumed by this step
ContinueSettles(h) == ContinueResolves(h) \/ \E error \in Errors : ContinueRejects(h, error)

(***************************************************************************)
(* C1.  Capture of a final response.                                       *)
(***************************************************************************)
\* the bytes each body result stands for: "aGk=" is base64 for "hi" (104 105),
\* "hi" as text is 104 105, and e-acute (U+00E9) as text is the two bytes 195 169
C1_Bytes(result) ==
  IF result.base64Encoded THEN << 104, 105 >>
  ELSE IF result.body = << 104, 105 >> THEN << 104, 105 >> ELSE << 195, 169 >>

\* the value of the header spelt "Content-Type" or "content-type", if there is one
C1_ContentType(headers) ==
  LET hits == { i \in 1..Len(headers) : headers[i].name \in { ContentTypeHeader, ContentTypeName } }
  IN  IF hits = {} THEN NoValue ELSE headers[CHOOSE i \in hits : TRUE].value

\* a GET event with a status that is neither 304 nor a redirect, and no error reason
C1_FinalGet(e) ==
  /\ IsGet(e.method)
  /\ e.responseStatusCode \notin { NoStatus, NotModified } \cup RedirectStatuses
  /\ e.responseErrorReason = NoValue

\* C1: a GET event with a final status and no error reason has its body fetched;
\* when the fetch succeeds, a URL that is eligible (same origin as firstUrl, or an
\* allowed origin) and is not firstUrl gets a Captured entry with the event's
\* statusCode and statusText, the decoded body and the value of the content-type
\* header whatever the case of its name, and the exchange is continued whether or
\* not it was captured; the continue command's success leaves that entry in place.
C1_CaptureFinal ==
  /\ \A e \in Events :
        C1_FinalGet(e) =>
          /\ FirstCommand(e) = GetResponseBody
          /\ \A first \in { ParseUrl(u) : u \in Urls } :
               LET g == Started(e, first)
               IN  /\ g.pc = "FetchBody" /\ g.url = e.url
                   /\ g.responseStatusCode = e.responseStatusCode
                   /\ g.responseStatusText = e.responseStatusText
                   /\ g.responseHeaders = e.responseHeaders
  /\ [][
      /\ \A h \in BagToSet(handlers), result \in BodyResults :
           GetResponseBodyResolves(h, result) =>
             /\ (Eligible(h.url) /\ HrefOf(h.url) # firstUrl.href) =>
                  archive'[h.url] =
                    Captured(h.responseStatusCode, h.responseStatusText, C1_Bytes(result),
                             C1_ContentType(h.responseHeaders))
             /\ \E g \in BagToSet(handlers') :
                  /\ handlers' = Replace(h, g)
                  /\ g.pc = "CaptureFinal"
                  /\ g.sent = << GetResponseBody, ContinueRequest(FALSE) >>
      /\ \A h \in BagToSet(handlers) :
           h.pc = "CaptureFinal" /\ ContinueResolves(h) => archive' = archive
     ]_vars

\* a response with a "Content-Type" header has been captured, and every command of
\* every delivered event has succeeded
C1_Witness ==
  /\ \E s \in UrlStrings :
        /\ archive[s].kind = "Captured"
        /\ archive[s].contentType = "text/css"
        /\ archive[s].body = << 195, 169 >>
        /\ s # firstRequest.url
  /\ handlers = EmptyBag
  /\ settled.returned = delivered

(***************************************************************************)
(* C2.  Origins of the archive's keys.                                     *)
(***************************************************************************)
\* C2 as claimed: every key of the archive, Captured or Failed, has firstUrl's
\* origin or an allowed origin.
C2_EveryKeyEligible ==
  firstUrl # NoUrl => \A s \in UrlStrings : archive[s] # NoEntry => Eligible(s)

\* C2 as amended: every key holding a Captured entry has firstUrl's origin or an
\* allowed origin (a Failed entry is recorded for any URL whose command fails).
C2_CapturedKeysEligible ==
  \A s \in UrlStrings : archive[s].kind = "Captured" => firstUrl # NoUrl /\ Eligible(s)

\* a response from an allowed origin other than firstUrl's has been captured
C2_Witness ==
  \E s \in UrlStrings :
     /\ archive[s].kind = "Captured"
     /\ OriginOf(s) # firstUrl.origin
     /\ OriginOf(s) \in allowedArchiveOrigins

(***************************************************************************)
(* C3.  The URL that initialized firstUrl.                                 *)
(***************************************************************************)
\* C3 as claimed: the URL that initialized firstUrl is never a key of the archive.
C3_FirstUrlNeverKey ==
  firstRequest # NoRequest => archive[firstRequest.url] = NoEntry

\* C3 as amended: the URL that initialized firstUrl never holds a Captured entry,
\* nor does any URL string that parses to firstUrl (it holds Failed when a command
\* of one of its exchanges has failed).
C3_FirstUrlNeverCaptured ==
  \A s \in UrlStrings :
     (s = firstRequest.url \/ HrefOf(s) = firstUrl.href) => archive[s].kind # "Captured"

\* the body of firstUrl's own response has been fetched and nothing was archived for it
C3_Witness ==
  /\ firstRequest # NoRequest
  /\ \E h \in BagToSet(handlers) : h.pc = "CaptureFinal" /\ h.url = firstRequest.url
  /\ archive[firstRequest.url] = NoEntry

(***************************************************************************)
(* C4.  Redirect responses.                                                *)
(***************************************************************************)
\* C4 as claimed: handling an event with a redirect status leaves the archive as
\* it was, whatever the outcome of the continue command.
C4_RedirectLeavesArchive ==
  [][ \A h \in BagToSet(handlers) :
        h.pc = "DeferRedirect" /\ ContinueSettles(h) => archive' = archive ]_vars

\* C4 as amended: an event with status 301, 302, 307 or 308 is continued without
\* its body being fetched, so it never creates a Captured entry; delivering it
\* leaves the archive unchanged, and so does the success of its continue command,
\* while the failure of that command records Failed{error} for its URL and
\* changes nothing else.
C4_RedirectNeverCaptured ==
  /\ \A e \in Events :
        e.responseStatusCode \in RedirectStatuses =>
          /\ FirstAwait(e) \in { "DeferRedirect", "SkipNonGet" }
          /\ FirstCommand(e).method = "Fetch.continueRequest"
  /\ [][
      /\ delivered' # delivered => archive' = archive
      /\ \A h \in BagToSet(handlers) :
           h.pc \in { "DeferRedirect", "SkipNonGet" } =>
             /\ ContinueResolves(h) => archive' = archive
             /\ \A error \in Errors :
                  ContinueRejects(h, error) =>
                    archive' = [ archive EXCEPT ![h.url] = Failed(error) ]
     ]_vars

\* a redirect has been continued with a further pause requested and nothing archived
C4_Witness ==
  \E h \in BagToSet(handlers) :
     /\ h.pc = "DeferRedirect"
     /\ h.sent = << ContinueRequest(TRUE) >>
     /\ archive[h.url] = NoEntry

(***************************************************************************)
(* C5.  Requests whose method is not GET.                                  *)
(***************************************************************************)
\* C5: an event whose method is not GET (in any case) does not initialize firstUrl:
\* the request that firstUrl was set from is a GET.
C5_FirstUrlFromGet ==
  firstRequest # NoRequest => IsGet(firstRequest.method)

(***************************************************************************)
(* C6.  304 responses.                                                     *)
(***************************************************************************)
\* C6 as claimed: handling a GET event with status 304 leaves the archive as it
\* was, whatever the outcome of the continue command.
C6_NotModifiedLeavesArchive ==
  [][ \A h \in BagToSet(handlers) :
        h.pc = "SkipNotModified" /\ ContinueSettles(h) => archive' = archive ]_vars

\* C6 as amended: a GET event with status 304 is continued without its body being
\* fetched, so it never creates a Captured entry; delivering it leaves the archive
\* unchanged, and so does the success of its continue command, while the failure
\* of that command records Failed{error} for its URL and changes nothing else.
C6_NotModifiedNeverCaptured ==
  /\ \A e \in Events :
        IsGet(e.method) /\ e.responseStatusCode = NotModified =>
          /\ FirstAwait(e) = "SkipNotModified"
          /\ FirstCommand(e) = ContinueRequest(FALSE)
  /\ [][
      /\ delivered' # delivered => archive' = archive
      /\ \A h \in BagToSet(handlers) :
           h.pc = "SkipNotModified" =>
             /\ ContinueResolves(h) => archive' = archive
             /\ \A error \in Errors :
                  ContinueRejects(h, error) =>
                    archive' = [ archive EXCEPT ![h.url] = Failed(error) ]
     ]_vars

\* a 304 has been continued, firstUrl is still unset and nothing is archived
C6_Witness ==
  \E h \in BagToSet(handlers) :
     /\ h.pc = "SkipNotModified"
     /\ h.sent = << ContinueRequest(FALSE) >>
     /\ firstUrl = NoUrl
     /\ archive[h.url] = NoEntry

C8_FailureRecorded ==
  [][ \A h \in BagToSet(handlers), error \in Errors :
        ContinueRejects(h, error) \/ GetResponseBodyRejects(h, error) =>
          /\ archive' = [ archive EXCEPT ![h.url] = [ kind |-> "Failed", error |-> error ] ]
          /\ handlers' = Remove(h)
          /\ settled' = [ returned |-> settled.returned + 1, threw |-> settled.threw ]
    ]_vars

\* a command has failed: its error is in the archive and every invocation returned
C8_Witness ==
  /\ \E s \in UrlStrings : archive[s] = [ kind |-> "Failed", error |-> "Session closed" ]
  /\ settled.returned >= 1
  /\ settled.threw = 0

C10_NoWaitLeftPending ==
  \A i \in IdleCalls :
     /\ idles[i].pc # "racing" =>
           idles[i].globalNetworkTimer # "armed" /\ idles[i].networkIdle # "pending"
     /\ idles[i].globalNetworkTimer = "cleared" => idles[i].networkIdle # "pending"

(***************************************************************************)
(* C11.  Last write wins.                                                  *)
(***************************************************************************)
\* C11: every write to the archive replaces the whole entry of its URL, whatever
\* was there and whichever exchange was delivered first: a step changes at most
\* one key; setResponse leaves exactly the response it was given; a capture
\* leaves exactly the Captured entry of the invocation whose body fetch resolved;
\* a failed command leaves exactly Failed with its error.
C11_LastWriteWins ==
  [][ /\ Cardinality({ s \in UrlStrings : archive'[s] # archive[s] }) <= 1
      /\ \A url \in ManualUrls, response \in ManualResponses :
           SetResponse(url, response) => archive'[url] = response
      /\ \A h \in BagToSet(handlers) :
           /\ \A result \in BodyResults :
                ( /\ GetResponseBodyResolves(h, result)
                  /\ Eligible(h.url)
                  /\ HrefOf(h.url) # firstUrl.href ) =>
                  archive'[h.url] =
                    [ kind |-> "Captured", statusCode |-> h.responseStatusCode,
                      statusText |-> h.responseStatusText, body |-> C1_Bytes(result),
                      contentType |-> C1_ContentType(h.responseHeaders) ]
           /\ \A error \in Errors :
                ContinueRejects(h, error) \/ GetResponseBodyRejects(h, error) =>
                  archive'[h.url] = [ kind |-> "Failed", error |-> error ]
    ]_vars

\* an exchange captured its response and, while it is still in flight, a later
\* setResponse has replaced the entry
C11_Witness ==
  \E h \in BagToSet(handlers) :
     /\ h.pc = "CaptureFinal"
     /\ HrefOf(h.url) # firstUrl.href
     /\ archive[h.url] \in ManualResponses

(***************************************************************************)
(* C12.  Assignment of firstUrl.                                           *)
(***************************************************************************)
\* C12: firstUrl is assigned once and never changes afterwards, and the event
\* that assigns it is the first delivered GET event whose status is not 304: the
\* delivery of an event changes firstUrl exactly when firstUrl is unset, the
\* method is GET (in any case) and the status is not 304.
C12_AssignedOnceByFirstGet ==
  [][ /\ firstUrl # NoUrl => firstUrl' = firstUrl
      /\ \A e \in Events :
           RequestPaused(e) =>
             ( firstUrl' # firstUrl <=>
                 firstUrl = NoUrl /\ IsGet(e.method) /\ e.responseStatusCode # NotModified )
    ]_vars

(***************************************************************************)
(* C13.  The rewritten tree has the shape of the snapshot.                 *)
(***************************************************************************)
\* node `after` is node `before` up to what rewriting may change: the same
\* identifier, type and style flag, the same attribute names with the same values
\* except for src, style and _cssText of an Element, the same text unless it is
\* a Text node flagged as style, and as many children, each standing in the same
\* relation to the child at its position
RECURSIVE C13_Counterpart(_, _)
C13_Counterpart(before, after) ==
  /\ after.id = before.id
  /\ after.type = before.type
  /\ after.isStyle = before.isStyle
  /\ DOMAIN after.attributes = DOMAIN before.attributes
  /\ \A name \in DOMAIN before.attributes :
        after.attributes[name] # before.attributes[name] =>
          before.type = "Element" /\ name \in { "src", "style", "_cssText" }
  /\ after.textContent # before.textContent => before.type = "Text" /\ before.isStyle
  /\ Len(after.childNodes) = Len(before.childNodes)
  /\ \A k \in 1..Len(before.childNodes) :
        C13_Counterpart(before.childNodes[k], after.childNodes[k])

\* C13: the tree mapSourceEntries produces has the same nodes as the snapshot,
\* with the same identifiers and types and the same children in the same order;
\* only src, style and _cssText of Elements and the text of style Text nodes differ.
C13_SameShape ==
  transformedSnapshot # NoSnapshot => C13_Counterpart(snapshot, transformedSnapshot)

\* a snapshot whose root element has two children has been rewritten, and the
\* rewriting changed it
C13_Witness ==
  /\ transformedSnapshot # NoSnapshot
  /\ transformedSnapshot # snapshot
  /\ Len(snapshot.childNodes[1].childNodes) = 2

(***************************************************************************)
(* C14.  Substitution of the URL token of a CSS url(...) occurrence.       *)
(***************************************************************************)
\* the token begins with the data: scheme
C14_IsData(token) == LiteralAt(token, 1, DataScheme)

\* texts put together
RECURSIVE C14_Concat(_)
C14_Concat(texts) ==
  IF texts = << >> THEN << >> ELSE Head(texts) \o C14_Concat(Tail(texts))

\* the text C14 gives for a piece: an occurrence whose token is a key has that
\* token, and nothing else, replaced by the mapped value; an occurrence whose
\* token is not a key, and any other text, is unchanged (C14 says nothing of an
\* occurrence of a data: URL, taken here as the code leaves it)
C14_Part(part, map) ==
  IF part.kind = "url" /\ ~C14_IsData(part.token)
    THEN IF part.token \in DOMAIN map
           THEN part.prefix \o part.quote \o map[part.token] \o part.quote \o << ")" >>
           ELSE PartText(part)
    ELSE MapCssUrls(PartText(part), map)

\* C14: mapCssUrls replaces, in every url(...) occurrence whose token is a key of
\* the source map, only the token, and leaves every other character unchanged.
C14_OnlyTokenReplaced ==
  mappedCssText.returned =>
    mappedCssText.text =
      C14_Concat([ k \in 1..Len(cssParts) |-> C14_Part(cssParts[k], sourceMap) ])

(***************************************************************************)
(* C15.  Occurrences of data: URLs.                                        *)
(***************************************************************************)
\* the text C15 gives for a piece: an occurrence whose token begins with data: is
\* unchanged (any other piece is taken as the code leaves it)
C15_Part(part, map) ==
  IF part.kind = "url" /\ C14_IsData(part.token)
    THEN PartText(part)
    ELSE MapCssUrls(PartText(part), map)

\* C15: mapCssUrls leaves every url(...) occurrence whose token begins with data:
\* unchanged, whatever the source map.
C15_DataUnchanged ==
  mappedCssText.returned =>
    mappedCssText.text =
      C14_Concat([ k \in 1..Len(cssParts) |-> C15_Part(cssParts[k], sourceMap) ])

(***************************************************************************)
(* C16.  Rewriting twice with a source map whose values map to themselves. *)
(***************************************************************************)
\* every mapped value is a key that maps to itself
C16_Fixpoint(map) ==
  \A key \in DOMAIN map : map[key] \in DOMAIN map /\ map[map[key]] = map[key]

\* C16: with such a source map, a second mapSourceEntries leaves the tree as the
\* first produced it.
C16_Idempotent ==
  remappedSnapshot # NoSnapshot /\ C16_Fixpoint(sourceMap) =>
    remappedSnapshot = transformedSnapshot


\* C19: when the body of a final response of an eligible URL other than the first
\* has been fetched, so that a Captured entry was written, and the continue command
\* that follows is rejected, the entry of the URL becomes Failed with that error:
\* the Captured entry is replaced, and the handler returns.
C19_ContinueFailureReplacesCapture ==
  [][ \A h \in BagToSet(handlers), error \in Errors :
        ( /\ h.pc = "CaptureFinal"
          /\ Eligible(h.url)
          /\ HrefOf(h.url) # firstUrl.href
          /\ archive[h.url].kind = "Captured"
          /\ ContinueRejects(h, error) ) =>
            /\ archive'[h.url] = Failed(error)
            /\ settled'["returned"] = settled["returned"] + 1 ]_vars

\* a capture has been written and its handler waits for the continue command
C19_Witness ==
  \E h \in BagToSet(handlers) :
    /\ h.pc = "CaptureFinal"
    /\ Eligible(h.url)
    /\ HrefOf(h.url) # firstUrl.href
    /\ archive[h.url].kind = "Captured"
    /\ ENABLED ContinueRejects(h, "Target closed")


C18_HandlersOutliveIdle ==
  /\ [][ idles' # idles => UNCHANGED << archive, handlers, firstUrl, delivered, settled >> ]_vars
  /\ [](\A h \in BagToSet(handlers) :
          h.pc = "FetchBody" => ENABLED GetResponseBodyResolves(h, [body |-> << 104, 105 >>, base64Encoded |-> FALSE]))
  /\ [][ \A h \in BagToSet(handlers) :
          ~IdlePending =>
            /\ \A result \in BodyResults :
                 ( GetResponseBodyResolves(h, result) /\ Eligible(h.url) /\ HrefOf(h.url) # firstUrl.href ) =>
                   archive'[h.url].kind = "Captured"
            /\ \A error \in Errors :
                 ( ContinueRejects(h, error) \/ GetResponseBodyRejects(h, error) ) =>
                   archive'[h.url] = Failed(error) ]_vars

\* idle() has returned while a handler that started before still waits for the
\* body of an eligible URL that has no entry yet
C18_Witness ==
  /\ idles # << >>
  /\ idles[1].pc = "returned"
  /\ \E h \in BagToSet(handlers) :
       /\ h.pc = "FetchBody"
       /\ Eligible(h.url)
       /\ HrefOf(h.url) # firstUrl.href
       /\ archive[h.url] = NoEntry
       /\ ENABLED GetResponseBodyResolves(h, [body |-> << 104, 105 >>, base64Encoded |-> FALSE])


\* the pause exchange x is at is the last of its chain
C17_AtTerminal(x) == Len(exchanges[x].pauses) = 1 /\ Head(exchanges[x].pauses) \in TerminalPauses

\* exchange x has been let go at its terminal pause, and if that pause carries a
\* status other than 304 and its URL is eligible and not the first, the URL has a
\* Captured entry
C17_Done(x) ==
  /\ exchanges[x].state = "continued"
  /\ C17_AtTerminal(x)
  /\ ( /\ TruthyNumber(Head(exchanges[x].pauses).response.responseStatusCode)
       /\ Head(exchanges[x].pauses).response.responseStatusCode # NotModified
       /\ Eligible(exchanges[x].url)
       /\ HrefOf(exchanges[x].url) # firstUrl.href ) =>
         archive[exchanges[x].url].kind = "Captured"

\* C17: the continue command of a GET event carries interceptResponse exactly when
\* the event has no response field or has a redirect status, and no other outcome
\* of the classification sends it; so, the client pausing the exchange again after
\* each such command, chains of redirects being finite and no command failing,
\* every GET exchange is in the end let go at its terminal pause (capture, 304 or
\* error), and then every eligible exchange other than the first whose terminal
\* status is not 304 has a Captured entry.
C17_RepauseUntilTerminal ==
  /\ [](\A x \in ExchangeIds :
          ( exchanges[x].state = "paused" /\ exchanges[x].handler.pc \in ContinueAwaits ) =>
            LET h == exchanges[x].handler
                e == PauseEvent(x)
            IN  /\ h.sent[Len(h.sent)].method = "Fetch.continueRequest"
                /\ h.sent[Len(h.sent)].interceptResponse <=>
                     \/ ~TruthyNumber(e.responseStatusCode) /\ ~TruthyString(e.responseErrorReason)
                     \/ e.responseStatusCode \in RedirectStatuses
                /\ h.sent[Len(h.sent)].interceptResponse <=> h.pc \in { "AwaitResponse", "DeferRedirect" })
  /\ \A x \in ExchangeIds : <>[]C17_Done(x)

\* both exchanges have been let go, one of them after a redirect hop, and the
\* resource has been captured
C17_Witness ==
  /\ \A x \in ExchangeIds : C17_Done(x)
  /\ delivered >= 5
  /\ archive[exchanges["resource"].url].kind = "Captured"
  /\ HrefOf(exchanges["resource"].url) # firstUrl.href

=============================================================================
